---------------------------- MODULE Spec2Model ----------------------------
(***************************************************************************)
(* Owner/Pet API (src/main.py, src/models/owner.py): two process-wide      *)
(* dictionaries, OWNERS and PETS, and one FastAPI handler per route.       *)
(*                                                                         *)
(* Identifiers.  uuid4() is modelled as a generator that never repeats:    *)
(* the k-th UUID drawn for a map is the token k.  Python dictionaries      *)
(* iterate in insertion order and a handler only ever inserts a freshly    *)
(* drawn key (PATCH reassigns an existing key, which keeps its position),  *)
(* so iteration order of a map is ascending token order.                   *)
(*                                                                         *)
(* Clock.  datetime.utcnow() is an environment read: every call returns a  *)
(* value that is at least the previous one (the clock never goes back) and *)
(* may be later.  Two calls made by one handler are two reads.             *)
(*                                                                         *)
(* Requests.  A handler is entered with its path and body already parsed:  *)
(* identifiers are UUIDs and payloads are instances of the declared schema. *)
(* request and response record the last request handled and its answer.    *)
(*                                                                         *)
(* models/pet.py is not part of the sources at hand; the Pet schemas are   *)
(* taken from the written specification (section 3, "Pet").                *)
(***************************************************************************)
EXTENDS Integers, Sequences, FiniteSets, TLC

VARIABLES OWNERS, PETS, now, owner_ids_issued, pet_ids_issued,
          request, response, served, dispatch, workers

vars == <<OWNERS, PETS, now, owner_ids_issued, pet_ids_issued,
          request, response, served, dispatch, workers>>

\* ------------------------------------------------------------------ bounds
MaxOwnerIds == 2
MaxPetIds == 2
MaxClock == 1
MaxRequests == 5

\* the identifiers a request can name: those drawn so far and one not drawn yet
OwnerIdSpace == {o \in 1..MaxOwnerIds : o <= owner_ids_issued + 1}
PetIdSpace == {p \in 1..MaxPetIds : p <= pet_ids_issued + 1}

\* ------------------------------------------------------------- dictionaries
None == "None"

EmptyDict == [k \in {} |-> None]

DictSet(dict, key, value) ==
    [k \in DOMAIN dict \cup {key} |-> IF k = key THEN value ELSE dict[k]]

DictDel(dict, key) == [k \in DOMAIN dict \ {key} |-> dict[k]]

RECURSIVE ValuesFrom(_, _, _)
ValuesFrom(dict, k, hi) ==
    IF k > hi THEN <<>>
    ELSE (IF k \in DOMAIN dict THEN <<dict[k]>> ELSE <<>>)
         \o ValuesFrom(dict, k + 1, hi)

\* dict.values(): the stored records in insertion order
Values(dict) ==
    IF DOMAIN dict = {} THEN <<>>
    ELSE ValuesFrom(dict, 1, CHOOSE m \in DOMAIN dict : \A k \in DOMAIN dict : k <= m)

\* the keys in insertion order
Keys(dict) == [i \in DOMAIN Values(dict) |-> Values(dict)[i].id]

\* ------------------------------------------------------------ Owner schemas
\* OwnerBase fields declared str with no default
OwnerRequiredStr == {"first_name", "last_name", "phone"}

\* a client-supplied embedded pet, as in the schema's example
ClientPet == [id |-> 0, name |-> "Boba", species |-> "Cat"]

\* the valid OwnerCreate payload sent: every field given, one embedded pet
OwnerCreatePayloads ==
    { [first_name |-> "Ada", last_name |-> "Lovelace", phone |-> "+1-212-555-0199",
       email |-> "ada@example.com", birth_date |-> "1815-12-10", pets |-> <<ClientPet>>] }

\* OwnerUpdate instances: every field defaults to None; fields_set is pydantic's
\* model_fields_set, the fields the request body named
OwnerUpdateOf(first, set) ==
    [first_name |-> first, last_name |-> None, phone |-> None, email |-> None,
     birth_date |-> None, fields_set |-> set]

\* {"first_name": "Augusta", "email": null} and {"first_name": null}
OwnerUpdatePayloads ==
    { OwnerUpdateOf("Augusta", {"first_name", "email"}),
      OwnerUpdateOf(None, {"first_name"}) }

\* OwnerRead(**data): the required strings must be strings
OwnerReadValid(data) == \A f \in OwnerRequiredStr : data[f] # None

\* OwnerRead(**payload.model_dump()): id from uuid4, both timestamps from utcnow
OwnerReadNew(payload, id, created, updated) ==
    [first_name |-> payload.first_name, last_name |-> payload.last_name,
     phone |-> payload.phone, email |-> payload.email,
     birth_date |-> payload.birth_date, pets |-> payload.pets,
     id |-> id, created_at |-> created, updated_at |-> updated]

\* -------------------------------------------------------------- Pet schemas
PetCreatePayloads ==
    { [owner_id |-> o, name |-> "Boba", species |-> "Cat"] : o \in OwnerIdSpace }

\* PetUpdate instances; an unset owner_id is written 0 (no UUID token is 0)
PetUpdateOf(owner, name, set) ==
    [owner_id |-> owner, name |-> name, species |-> None, fields_set |-> set]

\* {"name": "Mochi"} and {"owner_id": o}
PetUpdatePayloads ==
    { PetUpdateOf(0, "Mochi", {"name"}) }
    \cup { PetUpdateOf(o, None, {"owner_id"}) : o \in OwnerIdSpace }

PetReadNew(payload, id, created, updated) ==
    [owner_id |-> payload.owner_id, name |-> payload.name, species |-> payload.species,
     id |-> id, created_at |-> created, updated_at |-> updated]

\* ------------------------------------------------------------------ helpers
\* datetime.utcnow(): any reading not earlier than the last one
UtcNow(last) == last..MaxClock

\* variant: the merge with exclude_unset left out
MergeUnsetAll(data, payload) ==
    [k \in DOMAIN data |->
        IF k \in DOMAIN payload \ {"fields_set"} THEN payload[k] ELSE data[k]]

\* data.update({k: v for k, v in payload.model_dump(exclude_unset=True).items()})
Merge(data, payload) ==
    [k \in DOMAIN data |-> IF k \in payload.fields_set THEN payload[k] ELSE data[k]]

\* variant: the refresh written to the wrong timestamp
TouchCreated(data, t) == [data EXCEPT !.created_at = t]

\* data["updated_at"] = datetime.utcnow()
Touch(data, t) == [data EXCEPT !.updated_at = t]

\* Owner.pets is declared List[PetBase]: what a dump or a response shows of an
\* element is its PetBase part
PetBaseOf(p) == [id |-> p.id, name |-> p.name, species |-> p.species]

SummariesOf(seq) == [i \in DOMAIN seq |-> PetBaseOf(seq[i])]

\* [p for p in PETS.values() if p.owner_id == owner_id]
PetsOf(pets, owner_id) ==
    SummariesOf(SelectSeq(Values(pets), LAMBDA p : p.owner_id = owner_id))

\* variant: no referential check
OwnerKnownAlways(owners, owner_id) == TRUE

\* if payload.owner_id not in OWNERS  (create_pet's guard, negated)
OwnerKnown(owners, owner_id) == owner_id \in DOMAIN owners

\* variants: a cascade that takes every pet, and no cascade
CascadeAllPids(pets, owner_id) == DOMAIN pets

CascadeNoPids(pets, owner_id) == {}

\* [pid for pid, pet in PETS.items() if pet.owner_id == owner_id]
CascadePids(pets, owner_id) == {pid \in DOMAIN pets : pets[pid].owner_id = owner_id}

NoPayload == [fields_set |-> {}]
NoBody == <<>>

Req(op, id, payload) == [op |-> op, id |-> id, payload |-> payload]
Resp(status, body) == [status |-> status, body |-> body]

\* pet = PETS.get(pet_id); 404 if not pet; else the pet
GetPetResponse(pets, pet_id) ==
    IF pet_id \notin DOMAIN pets THEN Resp(404, "Pet not found")
    ELSE Resp(200, pets[pet_id])

\* ------------------------------------------------------------------- state
\* a request slot of the server; sync handlers run on pool threads
Workers == {"t1", "t2"}

\* a handler invocation: where it stands, its argument, its locals, its outcome
Worker(pc, op, owner_id, pids, status, pet_id) ==
    [pc |-> pc, op |-> op, owner_id |-> owner_id, pids |-> pids,
     status |-> status, pet_id |-> pet_id]

IdleWorker == Worker("idle", "none", 0, <<>>, 0, 0)

InFlight(w) == workers[w].pc \notin {"idle", "done"}

Start ==
    /\ OWNERS = EmptyDict
    /\ PETS = EmptyDict
    /\ now = 0
    /\ owner_ids_issued = 0
    /\ pet_ids_issued = 0
    /\ request = Req("start", 0, NoPayload)
    /\ response = Resp(0, NoBody)
    /\ served = 0
    /\ workers = [w \in Workers |-> IdleWorker]

Init == Start /\ dispatch = "serial"

\* a request is taken; the run is cut off after MaxRequests requests
Served == served < MaxRequests /\ served' = served + 1

\* ---------------------------------------------------------- Owner handlers
create_owner(payload) ==
    /\ Served
    /\ owner_ids_issued < MaxOwnerIds
    /\ \E created \in UtcNow(now) : \E updated \in UtcNow(created) :
         LET owner == OwnerReadNew(payload, owner_ids_issued + 1, created, updated) IN
         /\ OWNERS' = DictSet(OWNERS, owner.id, owner)
         /\ owner_ids_issued' = owner.id
         /\ now' = updated
         /\ request' = Req("create_owner", 0, payload)
         /\ response' = Resp(201, owner)
    /\ UNCHANGED <<PETS, pet_ids_issued, dispatch, workers>>

list_owners ==
    /\ Served
    /\ OWNERS' = [o \in DOMAIN OWNERS |-> [OWNERS[o] EXCEPT !.pets = PetsOf(PETS, OWNERS[o].id)]]
    /\ request' = Req("list_owners", 0, NoPayload)
    /\ response' = Resp(200, Values(OWNERS'))
    /\ UNCHANGED <<PETS, now, owner_ids_issued, pet_ids_issued, dispatch, workers>>

\* variant: the stored pets returned without the scan of PETS
get_owner_cached(owner_id) ==
    /\ Served
    /\ request' = Req("get_owner", owner_id, NoPayload)
    /\ response' = IF owner_id \notin DOMAIN OWNERS
                   THEN Resp(404, "Owner not found")
                   ELSE Resp(200, OWNERS[owner_id])
    /\ UNCHANGED <<OWNERS, PETS, now, owner_ids_issued, pet_ids_issued, dispatch, workers>>

get_owner(owner_id) ==
    /\ Served
    /\ request' = Req("get_owner", owner_id, NoPayload)
    /\ IF owner_id \notin DOMAIN OWNERS
       THEN /\ response' = Resp(404, "Owner not found")
            /\ UNCHANGED OWNERS
       ELSE LET owner == [OWNERS[owner_id] EXCEPT !.pets = PetsOf(PETS, OWNERS[owner_id].id)] IN
            /\ OWNERS' = [OWNERS EXCEPT ![owner_id] = owner]
            /\ response' = Resp(200, owner)
    /\ UNCHANGED <<PETS, now, owner_ids_issued, pet_ids_issued, dispatch, workers>>

patch_owner(owner_id, payload) ==
    /\ Served
    /\ request' = Req("patch_owner", owner_id, payload)
    /\ IF owner_id \notin DOMAIN OWNERS
       THEN /\ response' = Resp(404, "Owner not found")
            /\ UNCHANGED <<OWNERS, now>>
       ELSE \E t \in UtcNow(now) :
            LET data == Touch(Merge(OWNERS[owner_id], payload), t) IN
            /\ now' = t
            /\ IF ~OwnerReadValid(data)
               THEN /\ response' = Resp(500, "Internal Server Error")
                    /\ UNCHANGED OWNERS
               ELSE LET updated == [data EXCEPT !.pets = PetsOf(PETS, owner_id)] IN
                    /\ OWNERS' = [OWNERS EXCEPT ![owner_id] = updated]
                    /\ response' = Resp(200, updated)
    /\ UNCHANGED <<PETS, owner_ids_issued, pet_ids_issued, dispatch, workers>>

\* variant: a PUT that looks the target up first
put_owner_lookup(owner_id) ==
    /\ Served
    /\ request' = Req("put_owner", owner_id, NoPayload)
    /\ response' = IF owner_id \notin DOMAIN OWNERS
                   THEN Resp(404, "Owner not found")
                   ELSE Resp(501, "Not implemented")
    /\ UNCHANGED <<OWNERS, PETS, now, owner_ids_issued, pet_ids_issued, dispatch, workers>>

put_owner_placeholder(owner_id) ==
    /\ Served
    /\ request' = Req("put_owner", owner_id, NoPayload)
    /\ response' = Resp(501, "Not implemented")
    /\ UNCHANGED <<OWNERS, PETS, now, owner_ids_issued, pet_ids_issued, dispatch, workers>>

delete_owner(owner_id) ==
    /\ Served
    /\ request' = Req("delete_owner", owner_id, NoPayload)
    /\ IF owner_id \notin DOMAIN OWNERS
       THEN /\ response' = Resp(404, "Owner not found")
            /\ UNCHANGED <<OWNERS, PETS>>
       ELSE /\ PETS' = [pid \in DOMAIN PETS \ CascadePids(PETS, owner_id) |-> PETS[pid]]
            /\ OWNERS' = DictDel(OWNERS, owner_id)
            /\ response' = Resp(204, NoBody)
    /\ UNCHANGED <<now, owner_ids_issued, pet_ids_issued, dispatch, workers>>

\* ------------------------------------------------------------ Pet handlers
create_pet(payload) ==
    /\ Served
    /\ request' = Req("create_pet", 0, payload)
    /\ IF ~OwnerKnown(OWNERS, payload.owner_id)
       THEN /\ response' = Resp(400, "owner_id does not exist")
            /\ UNCHANGED <<PETS, pet_ids_issued, now>>
       ELSE /\ pet_ids_issued < MaxPetIds
            /\ \E created \in UtcNow(now) : \E updated \in UtcNow(created) :
                 LET pet == PetReadNew(payload, pet_ids_issued + 1, created, updated) IN
                 /\ PETS' = DictSet(PETS, pet.id, pet)
                 /\ pet_ids_issued' = pet.id
                 /\ now' = updated
                 /\ response' = Resp(201, pet)
    /\ UNCHANGED <<OWNERS, owner_ids_issued, dispatch, workers>>

list_pets ==
    /\ Served
    /\ request' = Req("list_pets", 0, NoPayload)
    /\ response' = Resp(200, Values(PETS))
    /\ UNCHANGED <<OWNERS, PETS, now, owner_ids_issued, pet_ids_issued, dispatch, workers>>

get_pet(pet_id) ==
    /\ Served
    /\ request' = Req("get_pet", pet_id, NoPayload)
    /\ response' = GetPetResponse(PETS, pet_id)
    /\ UNCHANGED <<OWNERS, PETS, now, owner_ids_issued, pet_ids_issued, dispatch, workers>>

patch_pet(pet_id, payload) ==
    /\ Served
    /\ request' = Req("patch_pet", pet_id, payload)
    /\ IF pet_id \notin DOMAIN PETS
       THEN /\ response' = Resp(404, "Pet not found")
            /\ UNCHANGED <<PETS, now>>
       ELSE \E t \in UtcNow(now) :
            LET updated == Touch(Merge(PETS[pet_id], payload), t) IN
            /\ now' = t
            /\ PETS' = [PETS EXCEPT ![pet_id] = updated]
            /\ response' = Resp(200, updated)
    /\ UNCHANGED <<OWNERS, owner_ids_issued, pet_ids_issued, dispatch, workers>>

put_pet_placeholder(pet_id) ==
    /\ Served
    /\ request' = Req("put_pet", pet_id, NoPayload)
    /\ response' = Resp(501, "Not implemented")
    /\ UNCHANGED <<OWNERS, PETS, now, owner_ids_issued, pet_ids_issued, dispatch, workers>>

\* variant: a delete that does not look the target up (PETS.pop(pet_id, None))
delete_pet_unchecked(pet_id) ==
    /\ Served
    /\ request' = Req("delete_pet", pet_id, NoPayload)
    /\ PETS' = DictDel(PETS, pet_id)
    /\ response' = Resp(204, NoBody)
    /\ UNCHANGED <<OWNERS, now, owner_ids_issued, pet_ids_issued, dispatch, workers>>

delete_pet(pet_id) ==
    /\ Served
    /\ request' = Req("delete_pet", pet_id, NoPayload)
    /\ IF pet_id \notin DOMAIN PETS
       THEN /\ response' = Resp(404, "Pet not found")
            /\ UNCHANGED PETS
       ELSE /\ PETS' = DictDel(PETS, pet_id)
            /\ response' = Resp(204, NoBody)
    /\ UNCHANGED <<OWNERS, now, owner_ids_issued, pet_ids_issued, dispatch, workers>>

\* ------------------------------------------------- one request at a time
Next ==
    \/ \E payload \in OwnerCreatePayloads : create_owner(payload)
    \/ list_owners
    \/ \E o \in OwnerIdSpace : get_owner(o)
    \/ \E o \in OwnerIdSpace, payload \in OwnerUpdatePayloads : patch_owner(o, payload)
    \/ \E o \in OwnerIdSpace : put_owner_placeholder(o)
    \/ \E o \in OwnerIdSpace : delete_owner(o)
    \/ \E payload \in PetCreatePayloads : create_pet(payload)
    \/ list_pets
    \/ \E p \in PetIdSpace : get_pet(p)
    \/ \E p \in PetIdSpace, payload \in PetUpdatePayloads : patch_pet(p, payload)
    \/ \E p \in PetIdSpace : put_pet_placeholder(p)
    \/ \E p \in PetIdSpace : delete_pet(p)

Spec == Init /\ [][Next]_vars

\* ------------------------------------------- requests on concurrent threads
\* create_pet and delete_owner taken one statement at a time, each invocation
\* on its own thread.  Under "serial" dispatch a request starts only when no
\* other one is between its first and its last statement; under "threaded"
\* dispatch the statements of two requests interleave freely.  The list
\* comprehension over PETS is taken as one step (a thread that is not preempted
\* inside it).
MayStart(w) ==
    /\ workers[w].pc = "idle"
    /\ dispatch = "serial" => \A v \in Workers : ~InFlight(v)

\* if payload.owner_id not in OWNERS: raise HTTPException(400)
create_pet_check(w, payload) ==
    /\ MayStart(w)
    /\ pet_ids_issued + Cardinality({v \in Workers : workers[v].pc = "create_pet_store"})
         < MaxPetIds
    /\ workers' = [workers EXCEPT ![w] =
         IF ~OwnerKnown(OWNERS, payload.owner_id)
         THEN Worker("done", "create_pet", payload.owner_id, <<>>, 400, 0)
         ELSE Worker("create_pet_store", "create_pet", payload.owner_id, <<>>, 0, 0)]
    /\ Served
    /\ UNCHANGED <<OWNERS, PETS, now, owner_ids_issued, pet_ids_issued,
                   request, response, dispatch>>

\* pet = PetRead(**payload.model_dump()); PETS[pet.id] = pet; return pet
create_pet_store(w) ==
    /\ workers[w].pc = "create_pet_store"
    /\ \E created \in UtcNow(now) : \E updated \in UtcNow(created) :
         LET payload == [owner_id |-> workers[w].owner_id, name |-> "Boba", species |-> "Cat"]
             pet == PetReadNew(payload, pet_ids_issued + 1, created, updated) IN
         /\ PETS' = DictSet(PETS, pet.id, pet)
         /\ pet_ids_issued' = pet.id
         /\ now' = updated
         /\ workers' = [workers EXCEPT ![w] =
                          Worker("done", "create_pet", pet.owner_id, <<>>, 201, pet.id)]
    /\ UNCHANGED <<OWNERS, owner_ids_issued, request, response, served, dispatch>>

\* if owner_id not in OWNERS: raise HTTPException(404)
delete_owner_check(w, owner_id) ==
    /\ MayStart(w)
    /\ workers' = [workers EXCEPT ![w] =
         IF owner_id \notin DOMAIN OWNERS
         THEN Worker("done", "delete_owner", owner_id, <<>>, 404, 0)
         ELSE Worker("delete_owner_scan", "delete_owner", owner_id, <<>>, 0, 0)]
    /\ Served
    /\ UNCHANGED <<OWNERS, PETS, now, owner_ids_issued, pet_ids_issued,
                   request, response, dispatch>>

\* [pid for pid, pet in PETS.items() if pet.owner_id == owner_id]
delete_owner_scan(w) ==
    /\ workers[w].pc = "delete_owner_scan"
    /\ workers' = [workers EXCEPT ![w] =
         [@ EXCEPT !.pc = "delete_owner_loop",
                   !.pids = SelectSeq(Keys(PETS),
                              LAMBDA pid : pid \in CascadePids(PETS, workers[w].owner_id))]]
    /\ UNCHANGED <<OWNERS, PETS, now, owner_ids_issued, pet_ids_issued,
                   request, response, served, dispatch>>

\* for pid in ...: del PETS[pid]      (KeyError when another thread removed it)
delete_owner_loop(w) ==
    /\ workers[w].pc = "delete_owner_loop"
    /\ IF workers[w].pids = <<>>
       THEN /\ workers' = [workers EXCEPT ![w] = [@ EXCEPT !.pc = "delete_owner_del"]]
            /\ UNCHANGED PETS
       ELSE LET pid == Head(workers[w].pids) IN
            IF pid \notin DOMAIN PETS
            THEN /\ workers' = [workers EXCEPT ![w] =
                       Worker("done", "delete_owner", @.owner_id, <<>>, 500, 0)]
                 /\ UNCHANGED PETS
            ELSE /\ PETS' = DictDel(PETS, pid)
                 /\ workers' = [workers EXCEPT ![w] = [@ EXCEPT !.pids = Tail(@)]]
    /\ UNCHANGED <<OWNERS, now, owner_ids_issued, pet_ids_issued,
                   request, response, served, dispatch>>

\* del OWNERS[owner_id]; return       (KeyError when another thread removed it)
delete_owner_del(w) ==
    /\ workers[w].pc = "delete_owner_del"
    /\ IF workers[w].owner_id \notin DOMAIN OWNERS
       THEN /\ workers' = [workers EXCEPT ![w] =
                  Worker("done", "delete_owner", @.owner_id, <<>>, 500, 0)]
            /\ UNCHANGED OWNERS
       ELSE /\ OWNERS' = DictDel(OWNERS, workers[w].owner_id)
            /\ workers' = [workers EXCEPT ![w] =
                  Worker("done", "delete_owner", @.owner_id, <<>>, 204, 0)]
    /\ UNCHANGED <<PETS, now, owner_ids_issued, pet_ids_issued,
                   request, response, served, dispatch>>

\* the response has been sent; the slot takes the next request
respond(w) ==
    /\ workers[w].pc = "done"
    /\ workers' = [workers EXCEPT ![w] = IdleWorker]
    /\ UNCHANGED <<OWNERS, PETS, now, owner_ids_issued, pet_ids_issued,
                   request, response, served, dispatch>>

\* POST /owners: one dictionary write, taken whole
post_owner(payload) ==
    /\ dispatch = "serial" => \A v \in Workers : ~InFlight(v)
    /\ create_owner(payload)

NextThreads ==
    \/ \E payload \in OwnerCreatePayloads : post_owner(payload)
    \/ \E w \in Workers, payload \in PetCreatePayloads : create_pet_check(w, payload)
    \/ \E w \in Workers : create_pet_store(w)
    \/ \E w \in Workers, o \in OwnerIdSpace : delete_owner_check(w, o)
    \/ \E w \in Workers : delete_owner_scan(w)
    \/ \E w \in Workers : delete_owner_loop(w)
    \/ \E w \in Workers : delete_owner_del(w)
    \/ \E w \in Workers : respond(w)

InitThreads == Start /\ dispatch \in {"serial", "threaded"}

SpecThreads == InitThreads /\ [][NextThreads]_vars


\* ------------------------------------------------------------ properties
LastOp == request.op
LastStatus == response.status

Range(seq) == {seq[i] : i \in DOMAIN seq}

PetSummary(pet) == [id |-> pet.id, name |-> pet.name, species |-> pet.species]

\* the summaries of the pets now in PETS that reference owner o
LivePets(o) == {PetSummary(PETS[p]) : p \in {q \in DOMAIN PETS : PETS[q].owner_id = o}}

ExactlyLive(pets, o) ==
    /\ Range(pets) = LivePets(o)
    /\ Len(pets) = Cardinality(LivePets(o))

Referenced(owners, pets) == \A p \in DOMAIN pets : pets[p].owner_id \in DOMAIN owners

\* C1: when delete_owner(o) answers 204 for a stored owner o, o is gone, no pet
\* that references o is left, every pet of another owner and every other owner
\* are stored as before, and get_pet on each removed pet's id answers 404.
C1_DeleteOwnerCascades ==
    [][ (request'.op = "delete_owner" /\ response'.status = 204) =>
          LET o == request'.id IN
          /\ o \in DOMAIN OWNERS
          /\ o \notin DOMAIN OWNERS'
          /\ \A p \in DOMAIN PETS' : PETS'[p].owner_id # o
          /\ \A p \in DOMAIN PETS :
               PETS[p].owner_id # o => p \in DOMAIN PETS' /\ PETS'[p] = PETS[p]
          /\ \A x \in DOMAIN OWNERS \ {o} : x \in DOMAIN OWNERS' /\ OWNERS'[x] = OWNERS[x]
          /\ \A p \in DOMAIN PETS \ DOMAIN PETS' : GetPetResponse(PETS', p).status = 404
      ]_vars

\* two owners and a pet of each were created, then one owner was deleted: its
\* pet went with it and the other owner's pet stayed
C1_Witness ==
    /\ LastOp = "delete_owner" /\ LastStatus = 204
    /\ owner_ids_issued = 2 /\ pet_ids_issued = 2
    /\ Cardinality(DOMAIN OWNERS) = 1 /\ Cardinality(DOMAIN PETS) = 1
    /\ Referenced(OWNERS, PETS)

\* C2: create_pet naming an owner_id that is not a key of OWNERS (never drawn,
\* or drawn and deleted since) answers 400 and leaves both maps as they were.
C2_CreatePetUnknownOwner ==
    [][ (request'.op = "create_pet" /\ request'.payload.owner_id \notin DOMAIN OWNERS) =>
          /\ response'.status = 400
          /\ PETS' = PETS
          /\ OWNERS' = OWNERS
      ]_vars

\* the owner named was created and deleted before the request
C2_Witness ==
    /\ LastOp = "create_pet" /\ LastStatus = 400
    /\ request.payload.owner_id <= owner_ids_issued
    /\ request.payload.owner_id \notin DOMAIN OWNERS

\* C3 as written: a patch of a stored record succeeds, writes the supplied
\* fields, and every other field but updated_at keeps its value; the key stays
\* and updated_at does not go back.
PatchAsWritten(old, new, payload) ==
    /\ \A f \in payload.fields_set : new[f] = payload[f]
    /\ \A f \in DOMAIN old \ (payload.fields_set \cup {"updated_at"}) : new[f] = old[f]
    /\ new.updated_at >= old.updated_at

NullsRequired(payload) ==
    \E f \in OwnerRequiredStr \cap payload.fields_set : payload[f] = None

PatchAsCoded(old, new, payload, derived) ==
    /\ \A f \in payload.fields_set : new[f] = payload[f]
    /\ \A f \in DOMAIN old \ (payload.fields_set \cup {"updated_at"} \cup derived) :
         new[f] = old[f]
    /\ new.updated_at >= old.updated_at

C4_OwnerReadsReportLivePets ==
    /\ (LastOp = "get_owner" /\ LastStatus = 200) =>
         /\ response.body.id = request.id
         /\ ExactlyLive(response.body.pets, request.id)
    /\ LastOp = "list_owners" =>
         /\ {response.body[i].id : i \in DOMAIN response.body} = DOMAIN OWNERS
         /\ \A i \in DOMAIN response.body :
              ExactlyLive(response.body[i].pets, response.body[i].id)

\* an owner created with a client-supplied pets list is read after a pet was
\* created for it: the list holds that pet and not the client's entry
C4_Witness ==
    /\ LastOp = "get_owner" /\ LastStatus = 200
    /\ response.body.email # None
    /\ Len(response.body.pets) = 1
    /\ response.body.pets[1].id \in DOMAIN PETS

\* C5: create_owner stores and returns a record whose id was never issued
\* before and whose created_at equals its updated_at.
C5_CreateOwnerFreshIdOneStamp ==
    [][ request'.op = "create_owner" =>
          /\ response'.status = 201
          /\ response'.body.id \notin 1..owner_ids_issued
          /\ response'.body.id \in DOMAIN OWNERS'
          /\ OWNERS'[response'.body.id] = response'.body
          /\ response'.body.created_at = response'.body.updated_at
      ]_vars

\* C6: PUT on an owner path or a pet path answers 501, whether the id is
\* stored or not, and leaves both maps as they were.
C6_PutNotImplemented ==
    [][ request'.op \in {"put_owner", "put_pet"} =>
          /\ response'.status = 501
          /\ OWNERS' = OWNERS
          /\ PETS' = PETS
      ]_vars

\* a PUT on an owner that is not stored, after a PUT could have found one
C6_Witness ==
    /\ LastOp = "put_owner" /\ LastStatus = 501
    /\ request.id \notin DOMAIN OWNERS
    /\ DOMAIN OWNERS # {}

\* C7: GET, PATCH and DELETE on an id that is not a key of its map answer 404
\* and leave both maps as they were.
C7_AbsentIdNotFound ==
    [][ \/ /\ request'.op \in {"get_owner", "patch_owner", "delete_owner"}
           /\ request'.id \notin DOMAIN OWNERS
        \/ /\ request'.op \in {"get_pet", "patch_pet", "delete_pet"}
           /\ request'.id \notin DOMAIN PETS
        => /\ response'.status = 404
           /\ OWNERS' = OWNERS
           /\ PETS' = PETS
      ]_vars

\* the DELETE of a pet that was created and has been deleted already
C7_Witness ==
    /\ LastOp = "delete_pet" /\ LastStatus = 404
    /\ request.id <= pet_ids_issued
    /\ request.id \notin DOMAIN PETS

\* C8: every stored owner and every stored pet has updated_at >= created_at.
C8_UpdatedNotBeforeCreated ==
    /\ \A o \in DOMAIN OWNERS : OWNERS[o].updated_at >= OWNERS[o].created_at
    /\ \A p \in DOMAIN PETS : PETS[p].updated_at >= PETS[p].created_at

\* a patched owner and a patched pet, both with updated_at past created_at
C8_Witness ==
    /\ \E o \in DOMAIN OWNERS : OWNERS[o].updated_at > OWNERS[o].created_at
                                /\ OWNERS[o].first_name = "Augusta"
    /\ \E p \in DOMAIN PETS : PETS[p].updated_at > PETS[p].created_at
                              /\ PETS[p].name = "Mochi"

\* C9: a request other than a patch_pet that supplies owner_id never takes the
\* maps from a state where every pet's owner_id is a key of OWNERS to one where
\* some pet's is not; the maps start empty, so without such a patch every
\* reachable state has every pet referencing a stored owner.
C9_OnlyRepointBreaksReference ==
    [][ ( /\ Referenced(OWNERS, PETS)
          /\ ~(request'.op = "patch_pet" /\ "owner_id" \in request'.payload.fields_set) )
        => Referenced(OWNERS', PETS')
      ]_vars

\* an owner with a pet was deleted while another owner's pet stays stored
C9_Witness ==
    /\ LastOp = "delete_owner" /\ LastStatus = 204
    /\ pet_ids_issued > Cardinality(DOMAIN PETS)
    /\ DOMAIN PETS # {}
    /\ DOMAIN OWNERS # {}

\* create_pet(owner_id = o) answered 201, delete_owner(o) answered 204, o is
\* gone and the new pet is stored with owner_id = o
RaceOutcome ==
    \E c \in Workers, d \in Workers :
        /\ workers[c].pc = "done" /\ workers[c].op = "create_pet" /\ workers[c].status = 201
        /\ workers[d].pc = "done" /\ workers[d].op = "delete_owner" /\ workers[d].status = 204
        /\ workers[d].owner_id = workers[c].owner_id
        /\ workers[c].owner_id \notin DOMAIN OWNERS
        /\ workers[c].pet_id \in DOMAIN PETS
        /\ PETS[workers[c].pet_id].owner_id = workers[c].owner_id

\* C10: with requests run one at a time the race outcome is never reached
\* (with interleaved requests it is: C10_Witness).
C10_SerialDispatchHasNoRace == dispatch = "serial" => ~RaceOutcome

C10_Witness == dispatch = "threaded" /\ RaceOutcome

=============================================================================
